---- MODULE Spec2Model ----
(***************************************************************************)
(* Model of the veritas-ai-backend authentication gateway:                 *)
(*   - the Token Service (lib/jwt.ts: generateToken / verifyToken, built   *)
(*     on jsonwebtoken's sign / verify with HS256 and expiresIn '24h'),    *)
(*   - the Authorization Gate (lib/auth-middleware.ts: authMiddleware),    *)
(*   - the routes of routes/auth.ts (signup, signin, verify, me, logout),  *)
(*     self-hosted hashing variant, with the user-profiles table and       *)
(*     bcrypt as collaborators.                                            *)
(*                                                                         *)
(* Strings are modelled by what the code does with them: a compact JWT is  *)
(* a record of its three parts (alg of the header, the claims, the         *)
(* signature), an HMAC is the symbolic term of what was signed and under   *)
(* which key, a header value is a sequence of items split on spaces.       *)
(***************************************************************************)
EXTENDS Integers, Sequences, FiniteSets, Bags, TLC

VARIABLES
    env,      \* process.env.JWT_SECRET of the running process ("" = unset)
    now,      \* Date.now(), milliseconds
    ticks,    \* number of clock advances of a Token Service run (bounds it)
    issued,   \* history: every jwt.sign performed, with payload, secret, time
    vres,     \* last verifyToken call observed (Token Service runs)
    users,    \* rows of the user-profiles table
    accounts, \* accounts of the identity provider (routes/auth.ts variant)
    loggedOut, \* history: tokens a successful POST /logout was made with
    uuids,    \* number of uuidv4() values drawn so far
    reqs,     \* requests in flight: route, inputs, position in the handler
    arrived,  \* number of requests received so far
    last      \* the request completed most recently, with its response

vars == <<env, now, ticks, issued, vres, users, accounts, loggedOut, uuids, reqs, arrived, last>>

---------------------------------------------------------------------------
(* Bounds of the model *)

MaxTicks == 3

(* Clock advances: just under one second, and one second short of 24 h.    *)
Jumps == {999, 86399000}

(* Input alphabets *)
Ids == {"u1", "u2"}
Emails == {"a@x.com", "b@x.com"}
Names == {"alice", "bob"}
Secrets == {"s1", "s2"}
EnvValues == Secrets \cup {""}

---------------------------------------------------------------------------
(* lib/jwt.ts *)

DefaultSecret == "your_jwt_secret_key"

(* const JWT_SECRET = process.env.JWT_SECRET || 'your_jwt_secret_key' *)
JWT_SECRET_of(e) == IF e = "" THEN DefaultSecret ELSE e
JWT_SECRET == JWT_SECRET_of(env)

(* expiresIn: '24h', in seconds as jsonwebtoken's timespan computes it *)
ExpiresIn == 86400

(* interface TokenPayload { id; email; name }: the payloads of the runs *)
TokenPayload ==
    {[id |-> "u1", email |-> "a@x.com", name |-> "alice"],
     [id |-> "u2", email |-> "b@x.com", name |-> "bob"]}
PayloadFields == {"id", "email", "name"}

(* The null of TokenPayload | null *)
Null == [null |-> TRUE]

(* Math.floor(Date.now() / 1000) *)
ClockTimestamp(ms) == ms \div 1000

(* HMAC over the encoded header and claims under a key: equal exactly when *)
(* algorithm, signed content and key are equal.                            *)
HMAC_nokey(alg, claims, key) == [alg |-> alg, over |-> claims]
HMAC(alg, claims, key) == [alg |-> alg, over |-> claims, key |-> key]

NoSignature == [none |-> TRUE]
HSAlgs == {"HS256", "HS384", "HS512"}

(* jwt.sign(payload, secret, { expiresIn: '24h' }): adds iat and exp.      *)
jwt_sign(payload, secret, ms) ==
    LET iat == ClockTimestamp(ms)
        claims == payload @@ [iat |-> iat, exp |-> iat + ExpiresIn]
    IN  [alg |-> "HS256", claims |-> claims, sig |-> HMAC("HS256", claims, secret)]

Threw(msg) == [threw |-> TRUE, error |-> msg]
Returned(v) == [threw |-> FALSE, value |-> v]

IsJwt(token) == DOMAIN token = {"alg", "claims", "sig"}

(* jwt.verify(token, secret): the decoded claims, or a thrown error.       *)
jwt_verify_nosig(token, secret, ms) ==
    IF ~IsJwt(token) THEN Threw("jwt malformed")
    ELSE IF "exp" \in DOMAIN token.claims
            /\ ClockTimestamp(ms) >= token.claims.exp THEN Threw("jwt expired")
    ELSE Returned(token.claims)
jwt_verify_late(token, secret, ms) ==
    IF ~IsJwt(token) THEN Threw("jwt malformed")
    ELSE IF token.sig = NoSignature THEN Threw("jwt signature is required")
    ELSE IF token.alg \notin HSAlgs THEN Threw("invalid algorithm")
    ELSE IF token.sig # HMAC(token.alg, token.claims, secret)
        THEN Threw("invalid signature")
    ELSE IF "exp" \in DOMAIN token.claims
            /\ ClockTimestamp(ms) > token.claims.exp THEN Threw("jwt expired")
    ELSE Returned(token.claims)
jwt_verify(token, secret, ms) ==
    IF ~IsJwt(token) THEN Threw("jwt malformed")
    ELSE IF token.sig = NoSignature THEN Threw("jwt signature is required")
    ELSE IF token.alg \notin HSAlgs THEN Threw("invalid algorithm")
    ELSE IF token.sig # HMAC(token.alg, token.claims, secret)
        THEN Threw("invalid signature")
    ELSE IF "exp" \in DOMAIN token.claims
            /\ ClockTimestamp(ms) >= token.claims.exp THEN Threw("jwt expired")
    ELSE Returned(token.claims)

(* export const generateToken = (payload) => jwt.sign(...) *)
generateToken(payload) == jwt_sign(payload, JWT_SECRET, now)

(* The outcome of the try block of verifyToken, before the catch. *)
verifyAttempt(token) == jwt_verify(token, JWT_SECRET, now)

(* export const verifyToken = (token) => try { decoded } catch { null }    *)
verifyToken_nocatch(token) ==
    LET r == verifyAttempt(token) IN IF r.threw THEN r ELSE r.value
verifyToken_stripped(token) ==
    LET r == verifyAttempt(token)
    IN  IF r.threw THEN Null
        ELSE [f \in DOMAIN r.value \ {"name"} |-> r.value[f]]
verifyToken(token) ==
    LET r == verifyAttempt(token) IN IF r.threw THEN Null ELSE r.value

---------------------------------------------------------------------------
(* Token strings a client can present *)

Garbage == [text |-> "not-a-jwt"]

IssuedTokens == {i.token : i \in issued}

(* Every change of a single part of a token: one claim, the expiry, the    *)
(* issued-at, the header's algorithm, or the signature.                    *)
Tampered(t) ==
    IF ~IsJwt(t) THEN {}
    ELSE
      {[t EXCEPT !.claims.id = y] : y \in Ids}
      \cup {[t EXCEPT !.claims.email = y] : y \in Emails}
      \cup {[t EXCEPT !.claims.name = y] : y \in Names}
      \cup {[t EXCEPT !.claims.exp = @ + ExpiresIn],
            [t EXCEPT !.claims.iat = @ + 1],
            [t EXCEPT !.alg = "none"], [t EXCEPT !.alg = "HS384"],
            [t EXCEPT !.sig = NoSignature]}
      \cup {[t EXCEPT !.sig = HMAC(t.alg, t.claims, k)] :
                k \in Secrets \cup {DefaultSecret, "guess"}}
      \cup {[t EXCEPT !.sig = u.sig] : u \in IssuedTokens}

SingleChanges(t) == Tampered(t) \ {t}

(* Claims changed and the signature recomputed under a key the client made *)
(* up.                                                                     *)
Forged(t) ==
    LET c == [t.claims EXCEPT !.id = "admin"]
    IN  [t EXCEPT !.claims = c, !.sig = HMAC(t.alg, c, "guess")]

---------------------------------------------------------------------------
(* Clock *)

Tick ==
    /\ ticks < MaxTicks
    /\ \E d \in Jumps : now' = now + d
    /\ ticks' = ticks + 1
    /\ UNCHANGED <<env, issued, vres, users, accounts, loggedOut, uuids, reqs, arrived, last>>

-------------------------------------------------------------------------------------------------------------------------------------------------
(* Token Service runs: generateToken and verifyToken applied to inputs     *)
(* drawn from the alphabets, in a process that may be restarted with       *)
(* another secret.                                                         *)

NoCall == [called |-> FALSE]
NoRequest == [route |-> "none", pc |-> "none"]

IssueRecord(p, t) ==
    [token |-> t, payload |-> p, secret |-> JWT_SECRET, at |-> now]

(* What a client may present: an issued token, a single-part change of     *)
(* one, or text that is no JWT.                                            *)
Presentable ==
    IssuedTokens \cup UNION {SingleChanges(t) : t \in IssuedTokens}
        \cup {Forged(t) : t \in IssuedTokens} \cup {Garbage}

VerifyRecord(t) ==
    [called |-> TRUE, token |-> t, secret |-> JWT_SECRET, at |-> now,
     attempt |-> verifyAttempt(t), result |-> verifyToken(t)]

TGenerate ==
    /\ issued = {}
    /\ \E p \in TokenPayload :
        issued' = issued \cup {IssueRecord(p, generateToken(p))}
    /\ UNCHANGED <<env, now, ticks, vres, users, accounts, loggedOut, uuids, reqs, arrived, last>>

TVerify ==
    /\ \E t \in Presentable : vres' = VerifyRecord(t)
    /\ UNCHANGED <<env, now, ticks, issued, users, accounts, loggedOut, uuids, reqs, arrived, last>>

TRestart ==
    /\ \E e \in EnvValues : e # env /\ env' = e
    /\ UNCHANGED <<now, ticks, issued, vres, users, accounts, loggedOut, uuids, reqs, arrived, last>>

TokenInit ==
    /\ env \in EnvValues
    /\ now = 0
    /\ ticks = 0
    /\ issued = {}
    /\ vres = NoCall
    /\ users = {}
    /\ accounts = {}
    /\ loggedOut = {}
    /\ uuids = 0
    /\ reqs = EmptyBag
    /\ arrived = 0
    /\ last = NoRequest

TokenNext == TGenerate \/ TVerify \/ TRestart \/ Tick

TokenSpec == TokenInit /\ [][TokenNext]_vars

---------------------------------------------------------------------------
(* Collaborators of routes/auth.ts: bcryptjs, uuid, the user-profiles table *)

(* bcrypt.hash(password, 10) and bcrypt.compare(password, hash): the       *)
(* digest matches the plaintext it was made from and no other.             *)
bcrypt_hash(password) == [bcrypt |-> password]
bcrypt_compare(password, hash) == hash.bcrypt = password

(* uuidv4(): a value never drawn before *)
uuidv4 == "u" \o ToString(uuids + 1)

NoRow == [norow |-> TRUE]

(* supabaseAdmin.from("user-profiles").select(..).eq("email_id", e)        *)
(* .single(): the row when exactly one row matches, otherwise no data.     *)
Matching(email) == {u \in users : u.email_id = email}
single(email) ==
    IF Cardinality(Matching(email)) = 1
    THEN CHOOSE u \in Matching(email) : TRUE
    ELSE NoRow

(* How a call to the store can end: data, an error result, a rejection.   *)
StoreOutcomes == {"ok", "error", "throw"}

---------------------------------------------------------------------------
(* Requests *)

\* Requests served in a run, and requests suspended at an await at one time.
MaxReqs == 3
MaxInFlight == 2

Undefined == [undefined |-> TRUE]
NoHeader == [present |-> FALSE]
NoBody == [nobody |-> TRUE]
NoFields == [username |-> "", email_id |-> "", password |-> ""]

NewReq(route, body, header) ==
    [route |-> route, body |-> body, header |-> header,
     pc |-> "start",
     at |-> 0,                    \* Date.now() when the gate ran (protected routes)
     fault |-> FALSE,             \* a collaborator call threw
     failed |-> FALSE,            \* a collaborator call returned an error
     dup |-> body.email_id \in {i.payload.email : i \in {j \in issued : j.via = "signup"}},
     user |-> Undefined,          \* req.user
     status |-> 0, resp |-> NoBody, \* res.status(..).json(..)
     sent |-> 0,                  \* responses sent
     nexts |-> 0,                 \* next() calls of the gate
     handlerRan |-> FALSE,        \* the protected handler ran
     verifyCalls |-> 0,           \* verifyToken calls
     verified |-> Undefined,      \* what verifyToken returned
     storeCalls |-> 0,            \* calls to the user store
     found |-> NoRow,             \* the row the lookup returned
     compared |-> "none",         \* outcome of bcrypt.compare
     sentRow |-> NoRow,           \* the row sent with this request's insert
     inserted |-> NoRow,          \* the row the store committed for it
     account |-> NoRow]           \* the identity-provider account it created

(* res.status(status).json(body); return *)
Respond(r, status, body) ==
    [r EXCEPT !.status = status, !.resp = body, !.sent = @ + 1, !.pc = "done"]

Falsy(v) == v = ""

InFlight(route, pc) == {r \in BagToSet(reqs) : r.route = route /\ r.pc = pc}

---------------------------------------------------------------------------
(* lib/auth-middleware.ts *)

SP == [sp |-> TRUE]
Word(w) == [word |-> w]

(* String.prototype.split(' '): the segments between single spaces.        *)
RECURSIVE SplitAcc(_, _, _)
SplitAcc(h, cur, acc) ==
    IF h = <<>> THEN Append(acc, cur)
    ELSE IF Head(h) = SP THEN SplitAcc(Tail(h), <<>>, Append(acc, cur))
    ELSE SplitAcc(Tail(h), Append(cur, Head(h)), acc)
Split(h) == SplitAcc(h, <<>>, <<>>)

(* req.headers.authorization?.split(' ')[1] *)
ExtractToken_bearer(header) ==
    IF ~header.present THEN [defined |-> FALSE]
    ELSE LET segs == Split(header.value)
         IN  IF Len(segs) >= 2 /\ segs[1] = <<Word("Bearer")>>
             THEN [defined |-> TRUE, text |-> segs[2]]
             ELSE [defined |-> FALSE]
ExtractToken(header) ==
    IF ~header.present THEN [defined |-> FALSE]
    ELSE LET segs == Split(header.value)
         IN  IF Len(segs) >= 2 THEN [defined |-> TRUE, text |-> segs[2]]
             ELSE [defined |-> FALSE]

(* !token: undefined or the empty string *)
NoToken(tok) == ~tok.defined \/ tok.text = <<>>

(* The token string handed to verifyToken: a JWT when the segment is one,  *)
(* other text otherwise.                                                   *)
TokenString(seg) == IF Len(seg) = 1 THEN seg[1] ELSE [text |-> seg]

(* authMiddleware(req, res, next) *)
authMiddleware_open(r) ==
    LET tok == ExtractToken(r.header) IN
    IF NoToken(tok)
    THEN Respond(r, 401, [error |-> "No token provided"])
    ELSE LET payload == verifyToken(TokenString(tok.text))
             r1 == [r EXCEPT !.verifyCalls = @ + 1, !.verified = payload]
         IN  [r1 EXCEPT !.user = payload, !.nexts = @ + 1, !.pc = "handler"]
authMiddleware_swapped(r) ==
    LET tok == ExtractToken(r.header) IN
    IF NoToken(tok)
    THEN Respond(r, 401, [error |-> "Invalid token"])
    ELSE LET payload == verifyToken(TokenString(tok.text))
             r1 == [r EXCEPT !.verifyCalls = @ + 1, !.verified = payload]
         IN  IF payload = Null
             THEN Respond(r1, 401, [error |-> "No token provided"])
             ELSE [r1 EXCEPT !.user = payload, !.nexts = @ + 1, !.pc = "handler"]
authMiddleware_shared(r) ==
    LET tok == ExtractToken(r.header) IN
    IF NoToken(tok)
    THEN Respond(r, 401, [error |-> "No token provided"])
    ELSE LET payload == verifyToken(TokenString(tok.text))
             r1 == [r EXCEPT !.verifyCalls = @ + 1, !.verified = payload]
             current == IF issued = {} THEN payload
                        ELSE (CHOOSE i \in issued : TRUE).token.claims
         IN  IF payload = Null
             THEN Respond(r1, 401, [error |-> "Invalid token"])
             ELSE [r1 EXCEPT !.user = current, !.nexts = @ + 1, !.pc = "handler"]
authMiddleware_revoking(r) ==
    LET tok == ExtractToken(r.header) IN
    IF NoToken(tok)
    THEN Respond(r, 401, [error |-> "No token provided"])
    ELSE LET payload == IF TokenString(tok.text) \in loggedOut THEN Null
                        ELSE verifyToken(TokenString(tok.text))
             r1 == [r EXCEPT !.verifyCalls = @ + 1, !.verified = payload]
         IN  IF payload = Null
             THEN Respond(r1, 401, [error |-> "Invalid token"])
             ELSE [r1 EXCEPT !.user = payload, !.nexts = @ + 1, !.pc = "handler"]
authMiddleware_twice(r) ==
    LET tok == ExtractToken(r.header) IN
    IF NoToken(tok)
    THEN Respond(r, 401, [error |-> "No token provided"])
    ELSE LET payload == verifyToken(TokenString(tok.text))
             r1 == [r EXCEPT !.verifyCalls = @ + 2, !.verified = payload]
         IN  IF payload = Null
             THEN Respond(r1, 401, [error |-> "Invalid token"])
             ELSE [r1 EXCEPT !.user = payload, !.nexts = @ + 1, !.pc = "handler"]
authMiddleware(r) ==
    LET tok == ExtractToken(r.header) IN
    IF NoToken(tok)
    THEN Respond(r, 401, [error |-> "No token provided"])
    ELSE LET payload == verifyToken(TokenString(tok.text))
             r1 == [r EXCEPT !.verifyCalls = @ + 1, !.verified = payload]
         IN  IF payload = Null
             THEN Respond(r1, 401, [error |-> "Invalid token"])
             ELSE [r1 EXCEPT !.user = payload, !.nexts = @ + 1, !.pc = "handler"]

---------------------------------------------------------------------------
(* routes/auth.ts: the protected handlers *)

ProtectedRoutes == {"verify", "me", "logout"}

ProtectedHandler(r) ==
    LET h == [r EXCEPT !.handlerRan = TRUE] IN
    CASE r.route = "verify" ->
            Respond(h, 200, [message |-> "Token is valid", user |-> r.user])
      [] r.route = "me" -> Respond(h, 200, [user |-> r.user])
      [] r.route = "logout" -> Respond(h, 200, [message |-> "Logout successful"])

(* router.<method>(path, authMiddleware, handler): express runs the        *)
(* handler inside next(), in the same turn as the gate.                    *)
Pipeline(r) ==
    LET g == authMiddleware(r) IN
    IF g.pc = "handler" THEN ProtectedHandler(g) ELSE g

---------------------------------------------------------------------------
(* routes/auth.ts: signup and signin *)

(* The requests in flight are a bag: two requests with the same inputs at  *)
(* the same position are two requests.                                     *)
Add(r) == reqs (+) SetToBag({r})
Remove(r) == reqs (-) SetToBag({r})

InternalError == [error |-> "Internal server error"]

ServerIssue(p, t, via, row, user) ==
    [token |-> t, payload |-> p, secret |-> JWT_SECRET, at |-> now,
     via |-> via, row |-> row, user |-> user]

(* catch (error) { res.status(500).json({ error: "Internal server error" }) } *)
Caught(r) == Respond([r EXCEPT !.fault = TRUE], 500, InternalError)

(* POST /signup, up to the first await: the field check, then the lookup   *)
(* of an existing profile is sent.                                         *)
SignupMissing_lax(b) == Falsy(b.username) \/ Falsy(b.email_id)
SignupMissing(b) == Falsy(b.username) \/ Falsy(b.email_id) \/ Falsy(b.password)

SignupBodies ==
    {[username |-> "alice", email_id |-> "a@x.com", password |-> "pw1"],
     [username |-> "", email_id |-> "a@x.com", password |-> "pw1"],
     [username |-> "alice", email_id |-> "", password |-> "pw1"],
     [username |-> "alice", email_id |-> "a@x.com", password |-> ""]}

SignupStart ==
    /\ arrived < MaxReqs
    /\ BagCardinality(reqs) < MaxInFlight
    /\ \E b \in SignupBodies :
        LET r == NewReq("signup", b, NoHeader) IN
        IF SignupMissing(b)
        THEN /\ last' = Respond(r, 400, [error |-> "Missing required fields"])
             /\ reqs' = reqs
        ELSE /\ reqs' = Add([r EXCEPT !.pc = "lookup", !.storeCalls = @ + 1])
             /\ last' = last
    /\ arrived' = arrived + 1
    /\ UNCHANGED <<env, now, ticks, issued, vres, users, accounts, loggedOut, uuids>>

(* The lookup returns: 409 when a profile exists, else bcrypt.hash is      *)
(* called and the handler awaits it.                                       *)
ExistingUser(outcome, email) == IF outcome = "ok" THEN single(email) ELSE NoRow

SignupLookup ==
    /\ \E r \in InFlight("signup", "lookup") : \E outcome \in StoreOutcomes :
        LET existingUser == ExistingUser(outcome, r.body.email_id)
        IN  IF outcome = "throw"
            THEN /\ last' = Caught(r)
                 /\ reqs' = Remove(r)
            ELSE IF existingUser # NoRow
            THEN /\ last' = Respond([r EXCEPT !.found = existingUser], 409,
                                    [error |-> "User already exists"])
                 /\ reqs' = Remove(r)
            ELSE /\ reqs' = Remove(r) (+) SetToBag({[r EXCEPT !.pc = "hash",
                                                            !.failed = outcome = "error"]})
                 /\ last' = last
    /\ UNCHANGED <<env, now, ticks, issued, vres, users, accounts, loggedOut, uuids, arrived>>

(* A bcryptjs promise resolves, or rejects (an argument that is no string) *)
HashOutcomes == {"ok", "throw"}

(* generateToken({ id: userId, email: email_id, name: username }) *)
SignupPayload_swapped(userId, body) ==
    [id |-> userId, email |-> body.username, name |-> body.email_id]
SignupPayload(userId, body) ==
    [id |-> userId, email |-> body.email_id, name |-> body.username]

(* user: { id: userId, email_id, username } *)
SignupUser(userId, body) ==
    [id |-> userId, email_id |-> body.email_id, username |-> body.username]

(* { id: userId, email_id, username, password_hash: hashedPassword, ... } *)
SignupRow(userId, body, hashedPassword) ==
    [id |-> userId, email_id |-> body.email_id, username |-> body.username,
     password_hash |-> hashedPassword]

(* bcrypt.hash returns: the id is drawn, the row is built and the insert   *)
(* is sent; a rejection is caught.                                         *)
SignupHash ==
    /\ \E r \in InFlight("signup", "hash") : \E outcome \in HashOutcomes :
        IF outcome = "throw"
        THEN /\ last' = Caught(r)
             /\ reqs' = Remove(r)
             /\ uuids' = uuids
        ELSE LET hashedPassword == bcrypt_hash(r.body.password)
                 userId == uuidv4
             IN  /\ reqs' = Remove(r) (+) SetToBag({[r EXCEPT
                                !.pc = "insert",
                                !.sentRow = SignupRow(userId, r.body, hashedPassword),
                                !.storeCalls = @ + 1]})
                 /\ uuids' = uuids + 1
                 /\ last' = last
    /\ UNCHANGED <<env, now, ticks, issued, vres, users, accounts, loggedOut, arrived>>

(* The store commits the row of an insert it received, while the handler   *)
(* that sent it is suspended.                                              *)
StoreInsert ==
    /\ \E r \in {q \in InFlight("signup", "insert") : q.inserted = NoRow} :
        /\ users' = users \cup {r.sentRow}
        /\ reqs' = Remove(r) (+) SetToBag({[r EXCEPT !.inserted = r.sentRow]})
    /\ UNCHANGED <<env, now, ticks, issued, vres, accounts, loggedOut, uuids, arrived, last>>

(* The insert returns: 400 on an insert error, else the token and 201.     *)
(* The handler reads only what the call returned, whatever the store did   *)
(* with the row.                                                           *)
SignupInsert ==
    /\ \E r \in InFlight("signup", "insert") : \E outcome \in StoreOutcomes :
        LET userId == r.sentRow.id
            payload == SignupPayload(userId, r.body)
            user == SignupUser(userId, r.body)
            token == generateToken(payload)
        IN  /\ reqs' = Remove(r)
            /\ CASE outcome = "throw" ->
                    /\ last' = Caught(r)
                    /\ issued' = issued
                 [] outcome = "error" ->
                    /\ last' = Respond([r EXCEPT !.failed = TRUE], 400,
                                       [error |-> "Failed to store user data"])
                    /\ issued' = issued
                 [] outcome = "ok" ->
                    /\ issued' = issued \cup {ServerIssue(payload, token, "signup",
                                                           r.sentRow, user)}
                    /\ last' = Respond(r, 201,
                            [message |-> "User created successfully",
                             token |-> token,
                             user |-> user])
    /\ UNCHANGED <<env, now, ticks, vres, users, accounts, loggedOut, uuids, arrived>>

(* POST /signin, up to the first await. *)
SigninBodies ==
    {[email_id |-> "a@x.com", password |-> "pw1"],
     [email_id |-> "a@x.com", password |-> "pw2"],
     [email_id |-> "b@x.com", password |-> "pw1"],
     [email_id |-> "", password |-> "pw1"],
     [email_id |-> "a@x.com", password |-> ""]}

SigninStart ==
    /\ arrived < MaxReqs
    /\ BagCardinality(reqs) < MaxInFlight
    /\ \E b \in SigninBodies :
        LET r == NewReq("signin", b @@ [username |-> ""], NoHeader) IN
        IF Falsy(b.email_id) \/ Falsy(b.password)
        THEN /\ last' = Respond(r, 400, [error |-> "Missing email or password"])
             /\ reqs' = reqs
        ELSE /\ reqs' = Add([r EXCEPT !.pc = "lookup", !.storeCalls = @ + 1])
             /\ last' = last
    /\ arrived' = arrived + 1
    /\ UNCHANGED <<env, now, ticks, issued, vres, users, accounts, loggedOut, uuids>>

(* The profile fetch returns: 401 on an error or no row, else             *)
(* bcrypt.compare is called and the handler awaits it.                     *)
NotFoundResponse_leaky == [error |-> "User not found"]
NotFoundResponse == [error |-> "Invalid email or password"]
WrongPasswordResponse == [error |-> "Invalid email or password"]

SigninLookup ==
    /\ \E r \in InFlight("signin", "lookup") : \E outcome \in StoreOutcomes :
        LET userData == ExistingUser(outcome, r.body.email_id)
            userError == outcome = "error" \/ userData = NoRow
        IN  IF outcome = "throw"
            THEN /\ last' = Caught(r)
                 /\ reqs' = Remove(r)
            ELSE IF userError \/ userData = NoRow
            THEN /\ last' = Respond([r EXCEPT !.failed = outcome = "error"], 401,
                                    NotFoundResponse)
                 /\ reqs' = Remove(r)
            ELSE /\ reqs' = Remove(r) (+) SetToBag({[r EXCEPT !.pc = "compare",
                                                            !.found = userData]})
                 /\ last' = last
    /\ UNCHANGED <<env, now, ticks, issued, vres, users, accounts, loggedOut, uuids, arrived>>

(* generateToken({ id: userData.id, email: userData.email_id, name: userData.username }) *)
SigninPayload(userData) ==
    [id |-> userData.id, email |-> userData.email_id, name |-> userData.username]
SigninUser(userData) ==
    [id |-> userData.id, email_id |-> userData.email_id,
     username |-> userData.username]

(* bcrypt.compare returns: 401 on a mismatch, else the token and 200; a    *)
(* rejection is caught.                                                    *)
SigninCompare ==
    /\ \E r \in InFlight("signin", "compare") : \E outcome \in HashOutcomes :
        LET userData == r.found
            passwordMatch == bcrypt_compare(r.body.password, userData.password_hash)
            r1 == [r EXCEPT !.compared = IF passwordMatch THEN "true" ELSE "false"]
            payload == SigninPayload(userData)
            token == generateToken(payload)
        IN  /\ reqs' = Remove(r)
            /\ IF outcome = "throw"
               THEN /\ last' = Caught(r)
                    /\ issued' = issued
               ELSE IF ~passwordMatch
               THEN /\ last' = Respond(r1, 401, WrongPasswordResponse)
                    /\ issued' = issued
               ELSE /\ issued' = issued \cup {ServerIssue(payload, token, "signin", userData,
                                                       SigninUser(userData))}
                    /\ last' = Respond(r1, 200,
                            [message |-> "Sign in successful",
                             token |-> token,
                             user |-> SigninUser(userData)])
    /\ UNCHANGED <<env, now, ticks, vres, users, accounts, loggedOut, uuids, arrived>>

---------------------------------------------------------------------------
(* Protected requests *)

(* A token of another deployment, signed under a secret this one lacks.    *)
ForeignToken ==
    jwt_sign([id |-> "u1", email |-> "a@x.com", name |-> "alice"], "other", now)

TokenStrings ==
    IssuedTokens \cup {[t EXCEPT !.claims.exp = @ + ExpiresIn] : t \in IssuedTokens}
        \cup {Forged(t) : t \in IssuedTokens} \cup {Garbage, ForeignToken}

Headers ==
    {NoHeader}
    \cup {[present |-> TRUE, value |-> v] :
            v \in {<<>>, <<Word("Bearer")>>, <<Word("Bearer"), SP>>}}
    \cup {[present |-> TRUE, value |-> <<Word("Bearer"), SP, t>>] : t \in TokenStrings}
    \cup {[present |-> TRUE, value |-> <<Word("Basic"), SP, t>>] : t \in IssuedTokens}
    \cup {[present |-> TRUE, value |-> <<Word("Bearer"), SP, SP, t>>] : t \in IssuedTokens}
    \cup {[present |-> TRUE, value |-> <<Word("Bearer"), SP, t, SP, Word("x")>>] :
            t \in IssuedTokens}

(* The gate is one function on the three routes: every header shape is    *)
(* sent to GET /verify, the plain ones to GET /me and POST /logout.        *)
HeadersOf(route) ==
    IF route = "verify" THEN Headers
    ELSE {NoHeader} \cup {[present |-> TRUE, value |-> <<Word("Bearer"), SP, t>>] :
                                t \in IssuedTokens \cup {Garbage}}

(* router.<method>(path, authMiddleware, handler) for the paths in routes *)
Gated(routes) ==
    /\ arrived < MaxReqs
    /\ \E route \in routes : \E h \in HeadersOf(route) :
        LET done == Pipeline([NewReq(route, NoFields, h) EXCEPT !.at = now]) IN
        /\ last' = done
        /\ loggedOut' = IF done.route = "logout" /\ done.status = 200
                         THEN loggedOut \cup {TokenString(ExtractToken(h).text)}
                         ELSE loggedOut
    /\ arrived' = arrived + 1
    /\ UNCHANGED <<env, now, ticks, issued, vres, users, accounts, uuids, reqs>>

(* GET /verify, GET /me, POST /logout *)
Protected == Gated(ProtectedRoutes)

(* The readings of Date.now() in a run: the start, the last second of a    *)
(* token issued at the start, and the second of its expiry.                *)
Times == {0, (ExpiresIn - 1) * 1000, ExpiresIn * 1000}

(* Time passes, between any two steps of the handlers. *)
Day ==
    /\ \E t \in Times : t > now /\ now' = t
    /\ UNCHANGED <<env, ticks, issued, vres, users, accounts, loggedOut, uuids, reqs,
                   arrived, last>>

Init ==
    /\ env = ""
    /\ now = 0
    /\ ticks = 0
    /\ issued = {}
    /\ vres = NoCall
    /\ users = {}
    /\ accounts = {}
    /\ loggedOut = {}
    /\ uuids = 0
    /\ reqs = EmptyBag
    /\ arrived = 0
    /\ last = NoRequest

Next ==
    \/ SignupStart \/ SignupLookup \/ SignupHash \/ StoreInsert \/ SignupInsert
    \/ SigninStart \/ SigninLookup \/ SigninCompare
    \/ Protected
    \/ Day

Spec == Init /\ [][Next]_vars

---------------------------------------------------------------------------
(* routes/auth.ts, the variant that delegates credentials to the identity  *)
(* provider: POST /signup creates the provider account, then the profile;  *)
(* POST /signin authenticates with the provider, then fetches the profile. *)

(* POST /signup, up to the first await. *)
ProviderSignupStart ==
    /\ arrived < MaxReqs
    /\ BagCardinality(reqs) < MaxInFlight
    /\ \E b \in SignupBodies :
        LET r == NewReq("signup", b, NoHeader) IN
        IF SignupMissing(b)
        THEN /\ last' = Respond(r, 400, [error |-> "Missing required fields"])
             /\ reqs' = reqs
        ELSE /\ reqs' = Add([r EXCEPT !.pc = "lookup", !.storeCalls = @ + 1])
             /\ last' = last
    /\ arrived' = arrived + 1
    /\ UNCHANGED <<env, now, ticks, issued, vres, users, accounts, loggedOut, uuids>>

(* The lookup returns: 409 when a profile exists, else the account         *)
(* creation is sent to the identity provider.                              *)
ProviderSignupLookup ==
    /\ \E r \in InFlight("signup", "lookup") : \E outcome \in StoreOutcomes :
        LET existingUser == ExistingUser(outcome, r.body.email_id)
        IN  IF outcome = "throw"
            THEN /\ last' = Caught(r)
                 /\ reqs' = Remove(r)
            ELSE IF existingUser # NoRow
            THEN /\ last' = Respond([r EXCEPT !.found = existingUser], 409,
                                    [error |-> "User already exists"])
                 /\ reqs' = Remove(r)
            ELSE /\ reqs' = Remove(r) (+) SetToBag({[r EXCEPT !.pc = "auth",
                                                            !.failed = outcome = "error",
                                                            !.storeCalls = @ + 1]})
                 /\ last' = last
    /\ UNCHANGED <<env, now, ticks, issued, vres, users, accounts, loggedOut, uuids, arrived>>

(* The identity provider: an account per accepted sign-up; authData.user   *)
(* is the account without its password.                                    *)
Account(id, body) == [id |-> id, email |-> body.email_id, password |-> body.password]
AuthUser(account) == [id |-> account.id, email |-> account.email]
Authenticated(email, password) ==
    {a \in accounts : a.email = email /\ a.password = password}

(* The provider creates the account of a sign-up it received, while the    *)
(* handler that sent it is suspended.                                      *)
ProviderCreate ==
    /\ \E r \in {q \in InFlight("signup", "auth") : q.account = NoRow} :
        LET account == Account(uuidv4, r.body) IN
        /\ accounts' = accounts \cup {account}
        /\ uuids' = uuids + 1
        /\ reqs' = Remove(r) (+) SetToBag({[r EXCEPT !.account = AuthUser(account)]})
    /\ UNCHANGED <<env, now, ticks, issued, vres, users, loggedOut, arrived, last>>

(* What a call to the provider returns: data.user, an error (with or      *)
(* without a message), neither, or a rejection.                            *)
AuthOutcomes == {"ok", "error", "nouser", "throw"}
AuthMessages ==
    {"", "User already registered", "Password should be at least 6 characters"}

(* data.user of a sign-up is the account the provider created for it.      *)
SignUpOutcomes(r) ==
    IF r.account # NoRow THEN AuthOutcomes ELSE AuthOutcomes \ {"ok"}

(* { error: authError?.message || 'Failed to create user' } *)
AuthErrorBody(outcome, message) ==
    [error |-> IF outcome = "error" /\ ~Falsy(message) THEN message
               ELSE "Failed to create user"]

(* { id: authData.user.id, email_id, username, ... } *)
ProviderProfile(id, body) ==
    [id |-> id, email_id |-> body.email_id, username |-> body.username]

(* supabase.auth.signUpWithPassword returns: 400 on an error or no user,   *)
(* else the profile insert is sent with the id of authData.user; a         *)
(* rejection is caught. The account, once created, stays.                  *)
ProviderSignUp ==
    /\ \E r \in InFlight("signup", "auth") :
       \E outcome \in SignUpOutcomes(r) : \E message \in AuthMessages :
        CASE outcome = "throw" ->
                /\ last' = Caught(r)
                /\ reqs' = Remove(r)
          [] outcome \in {"error", "nouser"} ->
                /\ last' = Respond([r EXCEPT !.failed = outcome = "error"], 400,
                                   AuthErrorBody(outcome, message))
                /\ reqs' = Remove(r)
          [] outcome = "ok" ->
                /\ reqs' = Remove(r) (+) SetToBag({[r EXCEPT
                                !.pc = "insert",
                                !.sentRow = ProviderProfile(r.account.id, r.body),
                                !.storeCalls = @ + 1]})
                /\ last' = last
    /\ UNCHANGED <<env, now, ticks, issued, vres, users, accounts, loggedOut, uuids,
                   arrived>>

(* The profile insert returns: 400 on an insert error, else the token and  *)
(* 201.                                                                    *)
ProviderSignupInsert ==
    /\ \E r \in InFlight("signup", "insert") : \E outcome \in StoreOutcomes :
        LET userId == r.account.id
            payload == SignupPayload(userId, r.body)
            user == SignupUser(userId, r.body)
            token == generateToken(payload)
        IN  /\ reqs' = Remove(r)
            /\ CASE outcome = "throw" ->
                    /\ last' = Caught(r)
                    /\ issued' = issued
                 [] outcome = "error" ->
                    /\ last' = Respond([r EXCEPT !.failed = TRUE], 400,
                                       [error |-> "Failed to store user data"])
                    /\ issued' = issued
                 [] outcome = "ok" ->
                    /\ issued' = issued \cup {ServerIssue(payload, token, "signup",
                                                           r.sentRow, user)}
                    /\ last' = Respond(r, 201,
                            [message |-> "User created successfully",
                             token |-> token,
                             user |-> user])
    /\ UNCHANGED <<env, now, ticks, vres, users, accounts, loggedOut, uuids, arrived>>

(* POST /signin, up to the first await. *)
ProviderSigninStart ==
    /\ arrived < MaxReqs
    /\ BagCardinality(reqs) < MaxInFlight
    /\ \E b \in SigninBodies :
        LET r == NewReq("signin", b @@ [username |-> ""], NoHeader) IN
        IF Falsy(b.email_id) \/ Falsy(b.password)
        THEN /\ last' = Respond(r, 400, [error |-> "Missing email or password"])
             /\ reqs' = reqs
        ELSE /\ reqs' = Add([r EXCEPT !.pc = "auth", !.storeCalls = @ + 1])
             /\ last' = last
    /\ arrived' = arrived + 1
    /\ UNCHANGED <<env, now, ticks, issued, vres, users, accounts, loggedOut, uuids>>

(* supabase.auth.signInWithPassword returns: 401 on an error or no user,   *)
(* else the profile fetch by id is sent.                                   *)
ProviderSignIn ==
    /\ \E r \in InFlight("signin", "auth") : \E outcome \in AuthOutcomes :
        LET known == Authenticated(r.body.email_id, r.body.password)
        IN  /\ outcome = "ok" => known # {}
            /\ IF outcome = "throw"
               THEN /\ last' = Caught(r)
                    /\ reqs' = Remove(r)
               ELSE IF outcome \in {"error", "nouser"}
               THEN /\ last' = Respond(r, 401, [error |-> "Invalid credentials"])
                    /\ reqs' = Remove(r)
               ELSE /\ \E a \in known :
                        reqs' = Remove(r) (+) SetToBag({[r EXCEPT
                                    !.pc = "fetch",
                                    !.account = AuthUser(a),
                                    !.storeCalls = @ + 1]})
                    /\ last' = last
    /\ UNCHANGED <<env, now, ticks, issued, vres, users, accounts, loggedOut, uuids, arrived>>

(* .eq('id', authData.user.id).single() *)
ProfileOf(outcome, id) ==
    LET rows == {u \in users : u.id = id}
    IN  IF outcome = "ok" /\ Cardinality(rows) = 1 THEN CHOOSE u \in rows : TRUE
        ELSE NoRow

(* The profile fetch returns: 400 on an error or no row, else the token    *)
(* and 200.                                                                *)
ProviderSigninFetch ==
    /\ \E r \in InFlight("signin", "fetch") : \E outcome \in StoreOutcomes :
        LET userData == ProfileOf(outcome, r.account.id)
            payload == SigninPayload(userData)
            token == generateToken(payload)
        IN  /\ reqs' = Remove(r)
            /\ IF outcome = "throw"
               THEN /\ last' = Caught(r)
                    /\ issued' = issued
               ELSE IF outcome = "error" \/ userData = NoRow
               THEN /\ last' = Respond([r EXCEPT !.failed = outcome = "error"], 400,
                                       [error |-> "User not found"])
                    /\ issued' = issued
               ELSE /\ issued' = issued \cup {ServerIssue(payload, token, "signin", userData,
                                                       SigninUser(userData))}
                    /\ last' = Respond([r EXCEPT !.found = userData], 200,
                            [message |-> "Sign in successful",
                             token |-> token,
                             user |-> SigninUser(userData)])
    /\ UNCHANGED <<env, now, ticks, vres, users, accounts, loggedOut, uuids, arrived>>

(* GET /verify, GET /me *)
ProviderRoutes == {"verify", "me"}
ProviderProtected == Gated(ProviderRoutes)

ProviderNext ==
    \/ ProviderSignupStart \/ ProviderSignupLookup
    \/ ProviderCreate \/ ProviderSignUp \/ StoreInsert \/ ProviderSignupInsert
    \/ ProviderSigninStart \/ ProviderSignIn \/ ProviderSigninFetch
    \/ ProviderProtected

ProviderSpec == Init /\ [][ProviderNext]_vars

---------------------------------------------------------------------------
(* Properties of the Token Service (checked under TokenSpec) *)

(* The generateToken calls that produced the token of the observed verifyToken call *)
Origins == {i \in issued : vres.called /\ i.token = vres.token}
SameKeyOrigins == {i \in Origins : i.secret = vres.secret}

Iat(i) == ClockTimestamp(i.at)
VerifiedAtSec == ClockTimestamp(vres.at)
BeforeExpiry(i) == VerifiedAtSec < Iat(i) + ExpiresIn

CarriesPayload(r, p) ==
    /\ r # Null
    /\ PayloadFields \subseteq DOMAIN r
    /\ \A f \in PayloadFields : r[f] = p[f]

(* C1 as stated: verifyToken(generateToken(P)) under the same secret,      *)
(* before expiry, returns exactly P, nothing other than P.                 *)
C1_RoundTripExact ==
    \A i \in SameKeyOrigins : BeforeExpiry(i) => vres.result = i.payload

(* C1 amended: verifyToken(generateToken(P)) under the same secret, before *)
(* expiry, returns a non-null object whose id, email and name are those of *)
(* P, and which carries besides them exactly the iat and exp claims that   *)
(* signing added (iat = issue second, exp = iat + 86400).                  *)
C1_RoundTrip ==
    \A i \in SameKeyOrigins :
        BeforeExpiry(i) =>
            /\ CarriesPayload(vres.result, i.payload)
            /\ DOMAIN vres.result = PayloadFields \cup {"iat", "exp"}
            /\ vres.result.iat = Iat(i)
            /\ vres.result.exp = Iat(i) + ExpiresIn

C1_Witness ==
    \E i \in SameKeyOrigins :
        /\ BeforeExpiry(i)
        /\ vres.at > i.at
        /\ vres.result # Null

(* Accepted in [iat, iat + 24h), rejected from iat + 24h on. *)
C2_Boundary ==
    \A i \in SameKeyOrigins :
        /\ (Iat(i) <= VerifiedAtSec /\ VerifiedAtSec < Iat(i) + ExpiresIn)
                => CarriesPayload(vres.result, i.payload)
        /\ VerifiedAtSec >= Iat(i) + ExpiresIn => vres.result = Null

(* A verifyToken call that follows one rejected as expired, with the same  *)
(* token and secret, returns null.                                         *)
C2_ExpiredStaysExpired ==
    (vres.called /\ vres.attempt.threw /\ vres.attempt.error = "jwt expired")
        => (vres'.token = vres.token /\ vres'.secret = vres.secret
                => vres'.result = Null)

(* C2: expiry boundary. With t0 the token's issued-at timestamp and the    *)
(* current time read in whole seconds, verifyToken returns the payload for *)
(* every current time in [t0, t0 + 24h) and null for every current time    *)
(* >= t0 + 24h; once a token was rejected as expired, no later call with   *)
(* that token verifies.                                                    *)
C2_ExpiryBoundary == [](C2_Boundary) /\ [][C2_ExpiredStaysExpired]_vars

(* The last accepted second was seen, and so was the first rejected one.   *)
C2_Witness ==
    \E i \in SameKeyOrigins :
        /\ VerifiedAtSec = Iat(i) + ExpiresIn
        /\ vres.result = Null
        /\ vres.attempt.error = "jwt expired"

C2_WitnessLastSecond ==
    \E i \in SameKeyOrigins :
        /\ VerifiedAtSec = Iat(i) + ExpiresIn - 1
        /\ vres.result # Null

(* C5: key mismatch. A token generated under one secret fails verifyToken  *)
(* under every other secret, at every time: the result is null.            *)
C5_KeyMismatch ==
    \A i \in Origins : i.secret # vres.secret => vres.result = Null

C5_Witness ==
    \E i \in Origins :
        /\ i.secret # vres.secret
        /\ BeforeExpiry(i)
        /\ vres.attempt.error = "invalid signature"

(* C6: integrity. Changing any single part of a generated token (a claim,  *)
(* the expiry, the issued-at, the algorithm or the signature) makes        *)
(* verifyToken fail under the secret it was generated with; and whatever   *)
(* verifyToken returns is the claims set some generateToken call signed,   *)
(* with that call's payload.                                               *)
C6_Integrity ==
    vres.called =>
        /\ \A i \in issued :
              (vres.token \in SingleChanges(i.token) \cup {Forged(i.token)}
                    /\ vres.secret = i.secret)
                 => vres.result = Null
        /\ vres.result # Null =>
              \E i \in issued :
                  /\ vres.result = i.token.claims
                  /\ CarriesPayload(vres.result, i.payload)

C6_Witness ==
    /\ vres.called
    /\ \E i \in issued :
          /\ vres.secret = i.secret
          /\ VerifiedAtSec < Iat(i) + ExpiresIn
          /\ vres.token = [i.token EXCEPT !.claims.exp = @ + ExpiresIn]
          /\ vres.result = Null

(* C7: verifyToken is total. For every input (malformed, wrongly signed,   *)
(* expired or valid) the caller gets null or a full payload; a fault of    *)
(* the decoder is never handed to the caller, and every fault gives null.  *)
C7_Total ==
    vres.called =>
        /\ "threw" \notin DOMAIN vres.result
        /\ vres.result = Null \/ PayloadFields \subseteq DOMAIN vres.result
        /\ vres.attempt.threw <=> vres.result = Null

C7_Witness ==
    /\ vres.called
    /\ vres.token = Garbage
    /\ vres.attempt.threw
    /\ vres.attempt.error = "jwt malformed"
    /\ vres.result = Null

---------------------------------------------------------------------------
(* Properties of the gate and the routes (checked under Spec) *)

LastProtected == last.route \in ProtectedRoutes
Extracted == ExtractToken(last.header)
HasToken == ~NoToken(Extracted)
Presented == TokenString(Extracted.text)

NoTokenBody == [error |-> "No token provided"]
InvalidTokenBody == [error |-> "Invalid token"]

(* C3: authorization gating. On /verify, /me and /logout the handler runs  *)
(* only if verifyToken was called on the token taken from this request's   *)
(* header and returned a payload (the claims of that token, which the      *)
(* Token Service signed); req.user is then exactly that payload; when      *)
(* verifyToken returned null the response is 401 and the handler never     *)
(* ran.                                                                    *)
C3_Gating ==
    LastProtected =>
        /\ last.handlerRan =>
              /\ HasToken
              /\ last.verifyCalls = 1
              /\ last.verified # Null
              /\ IsJwt(Presented)
              /\ Presented \in IssuedTokens
              /\ last.verified = Presented.claims
              /\ ClockTimestamp(last.at) < Presented.claims.exp
              /\ last.user = last.verified
              /\ last.status = 200
        /\ (last.verifyCalls > 0 /\ last.verified = Null) =>
              /\ last.status = 401
              /\ ~last.handlerRan
              /\ last.user = Undefined

C3_Witness ==
    /\ last.route = "logout"
    /\ last.handlerRan
    /\ last.user # Undefined
    /\ last.at > 0

(* C4: gate rejections. No Authorization header, or the header "Bearer "   *)
(* with an empty token: 401 {error: "No token provided"}, handler not run. *)
(* A token that is present but fails verification, an expired one          *)
(* included: 401 {error: "Invalid token"}. The gate rejects in no other    *)
(* way.                                                                    *)
C4_Rejections ==
    LastProtected =>
        /\ (~last.header.present \/ last.header = [present |-> TRUE,
                                        value |-> <<Word("Bearer"), SP>>])
              => /\ last.status = 401
                 /\ last.resp = NoTokenBody
                 /\ ~last.handlerRan
        /\ (HasToken /\ last.verified = Null)
              => /\ last.status = 401
                 /\ last.resp = InvalidTokenBody
                 /\ ~last.handlerRan
        /\ (HasToken /\ Presented \in IssuedTokens
                /\ ClockTimestamp(last.at) >= Presented.claims.exp)
              => /\ last.status = 401
                 /\ last.resp = InvalidTokenBody
        /\ last.status # 200
              => /\ last.status = 401
                 /\ last.resp \in {NoTokenBody, InvalidTokenBody}
                 /\ ~last.handlerRan
                 /\ last.sent = 1

C4_Witness ==
    /\ LastProtected
    /\ HasToken
    /\ Presented \in IssuedTokens
    /\ ClockTimestamp(last.at) >= Presented.claims.exp
    /\ last.status = 401
    /\ last.resp = InvalidTokenBody

(* C8 as stated: once a signup for email e has returned 201, every later   *)
(* signup with the same email returns 409 "User already exists", inserts   *)
(* no record and issues no token. Stated for requests with all fields      *)
(* present in which no call threw and the insert, if sent, reported no     *)
(* error.                                                                  *)
C8_DuplicateSignup ==
    (/\ last.route = "signup" /\ last.dup /\ ~SignupMissing(last.body)
     /\ ~last.fault /\ last.resp # [error |-> "Failed to store user data"])
        => /\ last.status = 409
           /\ last.resp = [error |-> "User already exists"]
           /\ last.inserted = NoRow
           /\ "token" \notin DOMAIN last.resp

(* The signup that returned token t *)
SignupOf(t) == {i \in issued : i.via = "signup" /\ i.token = t}

(* C9: end-to-end identity. A GET /me that presents, before its expiry,    *)
(* the token a signup returned with 201 is answered 200 with a user whose  *)
(* id, email and name are the id, email_id and username that signup        *)
(* returned and wrote in the row it handed to the store.                   *)
C9_EndToEnd ==
    (last.route = "me" /\ last.header.present /\ HasToken) =>
        \A i \in SignupOf(Presented) :
            (last.header.value = <<Word("Bearer"), SP, i.token>>
                /\ ClockTimestamp(last.at) < ClockTimestamp(i.at) + ExpiresIn)
            => /\ last.status = 200
               /\ DOMAIN last.resp = {"user"}
               /\ last.resp.user.id = i.user.id
               /\ last.resp.user.email = i.user.email_id
               /\ last.resp.user.name = i.user.username
               /\ i.row.id = i.user.id
               /\ i.row.email_id = i.user.email_id
               /\ i.row.username = i.user.username

C9_Witness ==
    /\ last.route = "me"
    /\ last.status = 200
    /\ last.at > 0
    /\ \E i \in issued :
          /\ i.via = "signup"
          /\ last.header = [present |-> TRUE, value |-> <<Word("Bearer"), SP, i.token>>]
          /\ last.resp.user.name = "alice"

(* A completed signin whose two fields were present *)
SigninComplete ==
    last.route = "signin" /\ ~Falsy(last.body.email_id) /\ ~Falsy(last.body.password)

(* C10: signin issues a token only when the lookup returned a record for   *)
(* the given email and bcrypt.compare against its stored hash returned     *)
(* true, and the token's payload is that record's id, email_id and         *)
(* username; with both fields present and no thrown fault, every other     *)
(* case (no record, wrong password) is answered 401 with one and the same  *)
(* message and without a token.                                            *)
C10_Signin ==
    SigninComplete =>
        /\ "token" \in DOMAIN last.resp =>
              /\ last.status = 200
              /\ last.found \in users
              /\ last.found.email_id = last.body.email_id
              /\ last.compared = "true"
              /\ last.found.password_hash = bcrypt_hash(last.body.password)
              /\ \E i \in issued :
                    /\ i.token = last.resp.token
                    /\ i.payload = [id |-> last.found.id,
                                    email |-> last.found.email_id,
                                    name |-> last.found.username]
                    /\ CarriesPayload(i.token.claims, i.payload)
        /\ (~last.fault /\ (last.found = NoRow \/ last.compared = "false")) =>
              /\ last.status = 401
              /\ last.resp = [error |-> "Invalid email or password"]
        /\ last.status = 401 => last.resp = [error |-> "Invalid email or password"]
        /\ last.status = 200 <=> "token" \in DOMAIN last.resp
        /\ Matching(last.body.email_id) = {} => last.status \in {401, 500}

C10_Witness ==
    /\ SigninComplete
    /\ last.found # NoRow
    /\ last.compared = "false"
    /\ last.status = 401

C10_WitnessIssued ==
    /\ SigninComplete
    /\ last.status = 200
    /\ "token" \in DOMAIN last.resp

---------------------------------------------------------------------------
(* Properties of signup's record creation *)

(* A record the completed signup created: its profile row or its account   *)
LastSignup == last.route = "signup" /\ last.pc = "done"
CreatedRecord == last.inserted # NoRow \/ last.account # NoRow

(* C11 as stated: a signup has created a user record (a profile row or an  *)
(* identity-provider account) if and only if it ends with 201 and a token; *)
(* no signup that ends with a 4xx or 5xx response leaves a created record  *)
(* behind.                                                                 *)
C11_NoPartialSuccess ==
    LastSignup =>
        /\ CreatedRecord <=> (last.status = 201 /\ "token" \in DOMAIN last.resp)
        /\ last.status >= 400 =>
                /\ last.inserted \notin users
                /\ \A a \in accounts : last.account = NoRow \/ a.id # last.account.id

---------------------------------------------------------------------------
(* Properties of the signing secret *)

(* C12 as stated: when the environment supplies no signing secret the      *)
(* Token Service fails at startup, and no token is ever generated or       *)
(* accepted under the hardcoded default secret.                            *)
C12_NoDefaultSecret ==
    /\ env = "" => issued = {}
    /\ \A i \in issued : i.secret # DefaultSecret
    /\ (vres.called /\ vres.result # Null) => vres.secret # DefaultSecret

---------------------------------------------------------------------------
(* Properties of the gate's calls and effects *)

(* A step in which a request went through the gate *)
GateStep ==
    /\ arrived' = arrived + 1
    /\ reqs' = reqs
    /\ last'.route \in ProtectedRoutes

(* What the gate leaves alone: the store, the tokens issued, the secret,   *)
(* the clock and every other request.                                      *)
GateFrame == UNCHANGED <<env, now, issued, users, accounts, uuids, reqs>>

VerifyCallCount == LastProtected => last.verifyCalls = IF HasToken THEN 1 ELSE 0

(* C13 as stated, its count: the gate performs exactly one verifyToken     *)
(* call per request, for every request that passes through it, whatever    *)
(* its Authorization header.                                               *)
C13_ExactlyOneCall == LastProtected => last.verifyCalls = 1

(* C13: the gate calls verifyToken exactly once for a request whose header *)
(* yields a non-empty token and not at all for a request without one (no   *)
(* header, no second segment, or an empty one), so never more than once;   *)
(* and a request passing through the gate changes nothing but its own      *)
(* req.user and response.                                                  *)
C13_VerifyCalls == [](VerifyCallCount) /\ [][GateStep => GateFrame]_vars

C13_Witness ==
    /\ LastProtected
    /\ HasToken
    /\ last.verifyCalls = 1
    /\ last.user # Undefined
    /\ users # {}

C13_WitnessNoToken ==
    /\ LastProtected
    /\ last.header.present
    /\ ~HasToken
    /\ last.verifyCalls = 0
    /\ last.status = 401
    /\ issued # {}

---------------------------------------------------------------------------
(* Properties of the token extraction *)

(* The shapes of an Authorization header value, read off its characters *)
NoSpace(v) == \A i \in 1..Len(v) : v[i] # SP
EmptySecond(v) ==
    /\ Len(v) >= 2
    /\ v[1] # SP /\ v[2] = SP
    /\ Len(v) = 2 \/ v[3] = SP
SchemeThenToken(v) ==
    /\ Len(v) >= 3
    /\ v[1] # SP /\ v[2] = SP /\ v[3] # SP
    /\ Len(v) = 3 \/ v[4] = SP

RejectedNoToken ==
    /\ last.status = 401
    /\ last.resp = NoTokenBody
    /\ last.verifyCalls = 0
    /\ ~last.handlerRan

(* What "Bearer <t>" gets at the time the gate ran *)
AcceptedAsBearer(t) == ~jwt_verify(t, JWT_SECRET, last.at).threw

(* C14: token extraction. The gate's token is the second segment of the    *)
(* Authorization header split on single spaces and the scheme is not       *)
(* checked: "<anything> <token>" is answered exactly as "Bearer <token>"   *)
(* is, with verifyToken called once on <token>; a header with no space, or *)
(* with an empty second segment (two spaces after the scheme, or nothing   *)
(* after the space), is answered 401 "No token provided" without a         *)
(* verifyToken call.                                                       *)
C14_TokenExtraction ==
    (LastProtected /\ last.header.present) =>
        LET v == last.header.value IN
        /\ NoSpace(v) => RejectedNoToken
        /\ EmptySecond(v) => RejectedNoToken
        /\ SchemeThenToken(v) =>
              /\ last.verifyCalls = 1
              /\ last.status = IF AcceptedAsBearer(v[3]) THEN 200 ELSE 401
              /\ last.status = 200 => last.user = v[3].claims
              /\ last.status = 401 => last.resp = InvalidTokenBody

C14_Witness ==
    /\ LastProtected
    /\ last.header.present
    /\ SchemeThenToken(last.header.value)
    /\ last.header.value[1] = Word("Basic")
    /\ last.status = 200
    /\ last.handlerRan

C14_WitnessTwoSpaces ==
    /\ LastProtected
    /\ last.header.present
    /\ Len(last.header.value) = 4
    /\ EmptySecond(last.header.value)
    /\ RejectedNoToken

---------------------------------------------------------------------------
(* Properties of failing collaborator calls *)

(* A call of the completed signup or signin to the user store returned an  *)
(* error or threw.                                                         *)
UpstreamFailed ==
    /\ last.route \in {"signup", "signin"}
    /\ last.failed \/ last.fault

(* C15 as stated: whenever a call to the user store fails during signup or *)
(* signin (the existence lookup, the insert, the record fetch, or a thrown *)
(* fault), the request ends with status 400 or 500, no token is issued and *)
(* no 2xx response is sent.                                                *)
C15_UpstreamFailure ==
    UpstreamFailed =>
        /\ last.status \in {400, 500}
        /\ "token" \notin DOMAIN last.resp

---------------------------------------------------------------------------
(* Properties of the requests' outcomes *)

(* A required field of the body is missing or empty *)
FieldMissing(r) ==
    \/ r.body.email_id = ""
    \/ r.body.password = ""
    \/ r.route = "signup" /\ r.body.username = ""

(* A request still awaiting a collaborator has answered nothing yet *)
Unanswered(r) ==
    /\ r.sent = 0 /\ r.status = 0 /\ r.resp = NoBody
    /\ r.nexts = 0
    /\ r.storeCalls >= 1
    /\ ~FieldMissing(r)

(* The store calls made when a failure response was sent *)
CallsAtFailure ==
    CASE FieldMissing(last) -> {0}
      [] last.status \in {401, 409} -> {1}
      [] last.route = "signin" -> {1}
      [] last.resp = [error |-> "Failed to store user data"] -> {2}
      [] OTHER -> {1, 2}

(* A step that sends a failure response, and what it leaves alone *)
FailureStep == last' # last /\ last'.status >= 400
FailureFrame == UNCHANGED <<issued, users, accounts>>

(* The outcome of the completed request and the state of the others *)
SingleOutcome ==
    /\ \A r \in BagToSet(reqs) : Unanswered(r)
    /\ last # NoRequest =>
        /\ last.pc = "done"
        /\ last.sent = 1
        /\ last.status \in {200, 201, 400, 401, 409, 500}
        /\ last.route \in ProtectedRoutes =>
              /\ last.nexts \in {0, 1}
              /\ last.nexts = 1 <=> last.handlerRan
              /\ last.nexts = 1 <=> last.status = 200
              /\ last.nexts = 0 <=> last.status = 401
              /\ last.storeCalls = 0
        /\ last.route \in {"signup", "signin"} =>
              /\ last.nexts = 0
              /\ FieldMissing(last) =>
                    /\ last.status = 400
                    /\ last.storeCalls = 0
              /\ last.status >= 400 =>
                    /\ last.storeCalls \in CallsAtFailure
                    /\ "token" \notin DOMAIN last.resp

(* C16: single terminal outcome. Every signup, signin or gated request     *)
(* ends with exactly one response; the gate either answers 401 itself or   *)
(* calls next() once, never both, and the handler behind it answers once;  *)
(* a failure response is the last thing its handler does (no store call,   *)
(* token or success response follows it); and a signup or signin with a    *)
(* missing required field is answered 400 before any store call.           *)
C16_SingleOutcome == [](SingleOutcome) /\ [][FailureStep => FailureFrame]_vars

C16_Witness ==
    /\ last.route = "signup"
    /\ last.body.password = ""
    /\ last.status = 400
    /\ last.storeCalls = 0
    /\ reqs # EmptyBag
    /\ users # {}

---------------------------------------------------------------------------
(* Properties of concurrent signups *)

(* The signups answered 201 for an email, and the profile rows with it *)
CreatedFor(email) == {i \in issued : i.via = "signup" /\ i.payload.email = email}

(* C17 as stated: for any interleaving of concurrent signup requests with  *)
(* the same email, at most one of them creates a user record and returns   *)
(* 201 with a token; the others end with 409. Stated for a signup with all *)
(* fields present, none of whose collaborator calls failed.                *)
C17_ConcurrentSignup ==
    (/\ last.route = "signup" /\ ~FieldMissing(last)
     /\ ~last.failed /\ ~last.fault) =>
        /\ last.status \in {201, 409}
        /\ Cardinality(Matching(last.body.email_id)) <= 1
        /\ Cardinality(CreatedFor(last.body.email_id)) <= 1

---------------------------------------------------------------------------
(* Properties of sessions *)

(* The gated request presented a token this server issued *)
PresentedIssued == LastProtected /\ HasToken /\ Presented \in IssuedTokens

(* Acceptance of an issued token is decided by its expiry alone, whatever  *)
(* was done with it before.                                                *)
AcceptedUntilExpiry ==
    PresentedIssued =>
        IF ClockTimestamp(last.at) < Presented.claims.exp
        THEN last.status = 200 /\ last.user = Presented.claims
        ELSE last.status = 401 /\ last.resp = InvalidTokenBody

(* No step changes what verification of an issued token yields at a given  *)
(* time.                                                                   *)
AcceptanceKept ==
    \A t \in IssuedTokens : \A ms \in {now, now'} :
        jwt_verify(t, JWT_SECRET', ms) = jwt_verify(t, JWT_SECRET, ms)

(* C18: statelessness of sessions. No operation (signup, signin, verify,   *)
(* me, logout) changes whether an already issued token is accepted: after  *)
(* POST /logout succeeded with token T, T is still accepted by the gate on *)
(* every later request until its expiry, and it is rejected after expiry   *)
(* whatever signin came later.                                             *)
C18_Stateless == [](AcceptedUntilExpiry) /\ [][AcceptanceKept]_vars

C18_Witness ==
    /\ PresentedIssued
    /\ Presented \in loggedOut
    /\ last.route = "me"
    /\ last.status = 200

C18_WitnessExpired ==
    /\ PresentedIssued
    /\ last.status = 401
    /\ \E i \in issued : i.via = "signin" /\ i.at > 0
                           /\ ClockTimestamp(i.at) >= Presented.claims.exp

---------------------------------------------------------------------------
(* Properties of the gate under concurrent requests *)

(* What verification yields as a function of the token, the secret and the *)
(* time, written out from the token's parts.                               *)
VerifyResult(t, secret, ms) ==
    IF /\ IsJwt(t)
       /\ t.alg \in {"HS256", "HS384", "HS512"}
       /\ t.sig = [alg |-> t.alg, over |-> t.claims, key |-> secret]
       /\ ClockTimestamp(ms) < t.claims.exp
    THEN t.claims
    ELSE Null

(* C19: per-request isolation and determinism. The result of verifyToken   *)
(* is a function of the token, the secret and the current time alone,      *)
(* whatever requests are in flight and whatever was issued or presented    *)
(* before; and each protected handler sees in req.user, and returns, the   *)
(* identity decoded from its own request's token, never another one.       *)
C19_Isolation ==
    (LastProtected /\ HasToken) =>
        /\ last.verified = VerifyResult(Presented, JWT_SECRET, last.at)
        /\ last.handlerRan =>
              /\ last.user = Presented.claims
              /\ last.route \in {"verify", "me"} => last.resp.user = Presented.claims

C19_Witness ==
    /\ LastProtected
    /\ last.route = "me"
    /\ last.handlerRan
    /\ \E i \in issued : i.payload.id # last.user.id
    /\ \E i \in issued : i.payload.id = last.user.id

C19_WitnessInFlight ==
    /\ LastProtected
    /\ last.handlerRan
    /\ reqs # EmptyBag


====
